---- MODULE Spec2Model ----
(***************************************************************************)
(* rhasspy-fuzzywuzzy: example generation (train.py) and the fuzzy         *)
(* best-match scan (__init__.py).                                          *)
(*                                                                         *)
(* Two specifications share this module:                                   *)
(*   Spec     the recognizer: recognize() / extract_one_sqlite() run over  *)
(*            a candidate table, one table row per step;                   *)
(*   SpecGen  training: generate_examples() driven by train()'s loop over  *)
(*            a bounded family of intent graphs.                           *)
(*                                                                         *)
(* Text is a sequence of one-character strings.  A score is an integer     *)
(* number of ticks of 0.000005, so that the 0.00001 the scan adds to its   *)
(* cutoff is two ticks and 100.0 is 20000000 ticks: rapidfuzz scores are   *)
(* floats, and two of them may differ by less than 0.00001.                *)
(***************************************************************************)
EXTENDS Integers, Sequences, FiniteSets, TLC

VARIABLES
    \* ---- recognizer ----
    table,          \* rows of "SELECT sentence, path FROM intents", in scan order
    intentOf,       \* intent_graph: the intent a stored path resolves to
    pc,             \* position of the caller / recognize / extract_one_sqlite
    todo,           \* inputs the batch caller has still to process
    input_text,     \* recognize(): input_text
    intent_filter,  \* recognize(): intent_filter, as the set of names it accepts
    query,          \* extract_one_sqlite(): query
    idx,            \* rows the cursor has handed out
    base,           \* similarity of query and each row's sentence (no cutoff)
    score_cutoff,   \* extract_one_sqlite(): score_cutoff
    result_score,   \* extract_one_sqlite(): result_score (<<>> is None)
    best_path,      \* extract_one_sqlite(): best_path   (<<>> is None)
    best_text,      \* extract_one_sqlite(): best_text   (<<>> is None)
    ret,            \* value extract_one_sqlite returned (<<>> is None)
    recognitions,   \* list recognize() returned
    conns,          \* sqlite connections opened and not closed
    sim,            \* WRatio without cutoff, as a function of (query, sentence)
    seen,           \* (input_text, result) of the extract_one_sqlite calls so far
    \* ---- training ----
    graph,          \* intent_graph handed to generate_examples
    gpc,            \* position of train() / generate_examples()
    start_node,     \* generate_examples(): start_node (<<>> is None)
    end_node,       \* generate_examples(): end_node   (<<>> is None)
    paths,          \* paths nx.all_simple_paths has still to hand out
    emitted,        \* Examples yielded so far, in order
    examples        \* train(): examples[intent_name][word_str] = path

rvars == <<table, intentOf, pc, todo, input_text, intent_filter, query, idx, base,
           score_cutoff, result_score, best_path, best_text, ret, recognitions, conns,
           sim, seen>>
gvars == <<graph, gpc, start_node, end_node, paths, emitted, examples>>
vars == <<rvars, gvars>>

None == <<>>
Some(x) == <<x>>
Val(o) == o[1]

----------------------------------------------------------------------------
(* Bounds of the model. *)
MaxRows == 3        \* rows in the candidate table
MaxQueries == 2     \* inputs the batch caller processes
MaxEdges == 6       \* edges of an intent graph

----------------------------------------------------------------------------
(* Text *)

Letters == {"a", "b"}
Upper == {"A", "B"}

\* str.lower on one character
LowerChar(c) == IF c = "A" THEN "a" ELSE IF c = "B" THEN "b" ELSE c

\* rapidfuzz.utils.default_process on one character: every character that is
\* not alphanumeric becomes a blank, the rest is lower-cased
ProcessChar(c) == IF c \in Letters \cup Upper THEN LowerChar(c) ELSE " "

RECURSIVE LStrip(_)
LStrip(s) == IF s # <<>> /\ Head(s) = " " THEN LStrip(Tail(s)) ELSE s

RECURSIVE RStrip(_)
RStrip(s) == IF s # <<>> /\ s[Len(s)] = " " THEN RStrip(SubSeq(s, 1, Len(s) - 1)) ELSE s

\* str.strip
Strip(s) == RStrip(LStrip(s))

\* rapidfuzz.utils.default_process
default_process(s) == Strip([i \in 1..Len(s) |-> ProcessChar(s[i])])

----------------------------------------------------------------------------
(* Scores, in ticks of 0.000005 *)

EPS == 2                  \* the 0.00001 added to the cutoff
HUNDRED == 20000000       \* the score 100
InitialCutoff == 0        \* score_cutoff = 0

\* similarities the model draws for a query and a different, non-empty text
ScoreVals == {0, 1, HUNDRED - EPS, HUNDRED - 1}

\* rapidfuzz.fuzz.WRatio without a cutoff, as the set of values it may take for
\* (query, choice): 100 exactly for equal non-empty texts (every other pair is
\* capped by the direct ratio, below 100, or by a scaled partial or token ratio,
\* at most 95); 0 when exactly one text is empty; for two empty texts 0 or 100,
\* depending on the rapidfuzz release.
SimSet(q, c) ==
    IF q = <<>> \/ c = <<>>
    THEN IF q = c THEN {0, HUNDRED} ELSE {0}
    ELSE IF q = c THEN {HUNDRED} ELSE ScoreVals

\* WRatio(query, choice, processor=None, score_cutoff=cutoff) for a pair of
\* similarity b: a score below the cutoff is reported as 0
WRatio(b, cutoff) == IF b >= cutoff THEN b ELSE 0

\* a scan that takes a row only when it beats the cutoff
Accepts_Strict(score, cutoff) == score > cutoff

\* "if score >= score_cutoff"
Accepts(score, cutoff) == score >= cutoff

\* a cutoff that is not raised above the score it was set from
RaiseCutoff_NoEps(score) == score

\* "score_cutoff = score + 0.00001"
RaiseCutoff(score) == score + EPS

\* an early return that already fires when the cutoff reaches 100
IsExact_AtHundred(cutoff) == cutoff >= HUNDRED

\* "if score_cutoff > 100"
IsExact(cutoff) == cutoff > HUNDRED

----------------------------------------------------------------------------
(* The candidate table *)

Intents == {"A", "B"}

\* sentences of the table: " ".join(words) of words that may hold capitals and
\* punctuation.  Each short text stands for texts of any length: what the scan
\* reads of a text is whether it equals the query and how similar it is.
SentenceSet == { <<"a">>, <<"A", "?">>, <<"b">> }

\* raw inputs of recognize()
QuerySet == { <<>>, <<"a">>, <<"A", "?">> }

\* the path of the i-th row: start node 0, inner node i, end node MaxRows + 1
PathOf(i) == <<0, i, MaxRows + 1>>

\* json.dumps / json.loads of the path column
json_dumps(p) == [json |-> p]
json_loads(x) == x.json

\* the (intent name, sentence) keys of train()'s examples, in insertion order:
\* examples[intent_name][word_str] holds one path per key
KeySeqs ==
    UNION { { f \in [1..n -> Intents \X SentenceSet] :
              \A i, j \in 1..n : i # j => f[i] # f[j] }
            : n \in 0..MaxRows }

\* the rows of the intents table for these keys: (sentence, path), one row per
\* key, each with its own path, in insertion order
TableOf(k) ==
    [i \in 1..Len(k) |-> [sentence |-> k[i][2], path |-> json_dumps(PathOf(i))]]

\* the intent graph behind the table, as far as recognition reads it: the
\* intent name on the first edge of each stored path
GraphOf(k) == [p \in { PathOf(i) : i \in 1..Len(k) } |-> k[p[2]][1]]

\* intent_filter arguments: None, or a predicate given as the set it accepts
FilterSet == { None, Some({"B"}), Some({}) }

\* "intent_filter = intent_filter or (lambda i: True)"
DefaultFilter(f) == IF f = None THEN Intents ELSE Val(f)

----------------------------------------------------------------------------
(* extract_one_sqlite *)

\* the queries extract_one_sqlite is called with
ProcessedQueries == { default_process(inp) : inp \in QuerySet }

\* WRatio without a cutoff is a function of its two texts: the functions it may
\* be on the queries and the sentences of table t
SimMaps(t) ==
    { f \in [ProcessedQueries \X { t[i].sentence : i \in 1..Len(t) }
                -> ScoreVals \cup {HUNDRED}] :
        \A qc \in DOMAIN f : f[qc] \in SimSet(qc[1], qc[2]) }

\* the similarities of query q and the rows of table t, in scan order
BaseOf(q, t) == [i \in 1..Len(t) |-> sim[<<q, t[i].sentence>>]]

\* a cutoff left over from the call before
StartCutoff_Stale == score_cutoff

\* "score_cutoff = 0" at the start of each call
StartCutoff == InitialCutoff

\* recognize() up to its call of extract_one_sqlite, and extract_one_sqlite up
\* to the loop: connect, execute, initialise the running best
CallRecognize(inp, f) ==
    /\ pc = "idle"
    /\ todo > 0
    /\ input_text' = inp
    /\ intent_filter' = DefaultFilter(f)
    /\ query' = default_process(inp)
    /\ conns' = conns + 1
    /\ idx' = 0
    /\ base' = BaseOf(default_process(inp), table)
    /\ score_cutoff' = StartCutoff
    /\ result_score' = None
    /\ best_path' = None
    /\ best_text' = None
    /\ ret' = None
    /\ recognitions' = <<>>
    /\ pc' = "scan"
    /\ UNCHANGED <<table, intentOf, todo, sim, seen>>

\* one pass of "for choice in c"
ScanRow ==
    /\ pc = "scan"
    /\ idx < Len(table)
    /\ LET choice == table[idx + 1]
           score == WRatio(base[idx + 1], score_cutoff)
       IN   /\ idx' = idx + 1
            /\ IF Accepts(score, score_cutoff)
               THEN /\ score_cutoff' = RaiseCutoff(score)
                    /\ IF IsExact(RaiseCutoff(score))
                       THEN \* return (choice[0], json.loads(choice[1]), score)
                            /\ ret' = Some([text |-> choice.sentence,
                                            path |-> json_loads(choice.path),
                                            score |-> score])
                            /\ pc' = "returned"
                            /\ UNCHANGED <<result_score, best_path, best_text>>
                       ELSE /\ result_score' = Some(score)
                            /\ best_path' = Some(choice.path)
                            /\ best_text' = Some(choice.sentence)
                            /\ UNCHANGED <<ret, pc>>
               ELSE UNCHANGED <<score_cutoff, result_score, best_path, best_text, ret, pc>>
    /\ UNCHANGED <<table, intentOf, todo, input_text, intent_filter, query, base,
                   recognitions, conns, sim, seen>>

\* the cursor is exhausted: conn.close(), then None or the running best
ScanEnd ==
    /\ pc = "scan"
    /\ idx = Len(table)
    /\ conns' = conns - 1
    /\ ret' = IF result_score = None \/ best_path = None
              THEN None
              ELSE Some([text |-> Val(best_text),
                         path |-> json_loads(Val(best_path)),
                         score |-> Val(result_score)])
    /\ pc' = "returned"
    /\ UNCHANGED <<table, intentOf, todo, input_text, intent_filter, query, idx, base,
                   score_cutoff, result_score, best_path, best_text, recognitions,
                   sim, seen>>

----------------------------------------------------------------------------
(* recognize, after extract_one_sqlite has returned *)

\* rhasspynlu.fsticuffs.path_to_recognition, as far as the intent goes: the
\* recognition of a path carries the intent name of the path's first edge
path_to_recognition(p) == [intent |-> intentOf[p]]

\* "recognition.intent.confidence = best_score / 100.0", as a fraction
Confidence(score) == [num |-> score, den |-> HUNDRED]

\* "best_text, best_path, best_score = extract_one_sqlite(...)" and the rest of
\* recognize: unpacking None raises TypeError; otherwise one Recognition with
\* confidence best_score / 100 is returned
RecognizeReturn ==
    /\ pc = "returned"
    /\ IF ret = None
       THEN /\ pc' = "raised"
            /\ UNCHANGED recognitions
       ELSE LET r == Val(ret)
                recognition == path_to_recognition(r.path)
            IN /\ recognitions' = << [intent |-> recognition.intent,
                                      confidence |-> Confidence(r.score),
                                      raw_text |-> input_text] >>
               /\ pc' = "done"
    /\ seen' = seen \cup { <<input_text, ret>> }
    /\ UNCHANGED <<table, intentOf, todo, input_text, intent_filter, query, idx, base,
                   score_cutoff, result_score, best_path, best_text, ret, conns, sim>>

\* the caller's loop over its inputs: the recognition is written out, the
\* call's locals are gone and the next input is taken (score_cutoff keeps its
\* last value until the next call sets it)
NextInput ==
    /\ pc = "done"
    /\ pc' = "idle"
    /\ todo' = todo - 1
    /\ input_text' = <<>>
    /\ intent_filter' = Intents
    /\ query' = <<>>
    /\ idx' = 0
    /\ base' = <<>>
    /\ result_score' = None
    /\ best_path' = None
    /\ best_text' = None
    /\ ret' = None
    /\ recognitions' = <<>>
    /\ UNCHANGED <<table, intentOf, conns, sim, seen, score_cutoff>>

----------------------------------------------------------------------------
(* The recognizer's specification *)

GenIdle ==
    /\ graph = [nodes |-> {}]
    /\ gpc = "off"
    /\ start_node = None
    /\ end_node = None
    /\ paths = <<>>
    /\ emitted = <<>>
    /\ examples = <<>>

Init ==
    /\ \E k \in KeySeqs : table = TableOf(k) /\ intentOf = GraphOf(k)
    /\ sim \in SimMaps(table)
    /\ seen = {}
    /\ pc = "idle"
    /\ todo = MaxQueries
    /\ input_text = <<>>
    /\ intent_filter = Intents
    /\ query = <<>>
    /\ idx = 0
    /\ base = <<>>
    /\ score_cutoff = InitialCutoff
    /\ result_score = None
    /\ best_path = None
    /\ best_text = None
    /\ ret = None
    /\ recognitions = <<>>
    /\ conns = 0
    /\ GenIdle

Next ==
    \/ /\ \E inp \in QuerySet, f \in FilterSet : CallRecognize(inp, f)
       /\ UNCHANGED gvars
    \/ ScanRow /\ UNCHANGED gvars
    \/ ScanEnd /\ UNCHANGED gvars
    \/ RecognizeReturn /\ UNCHANGED gvars
    \/ NextInput /\ UNCHANGED gvars

Spec == Init /\ [][Next]_vars

----------------------------------------------------------------------------
(* Properties of the recognizer, checked under Spec *)

Rows == 1..Len(table)

\* the table row whose path extract_one_sqlite returned
RetRow == Val(ret).path[2]

\* what the scan returns for row i
RowResult(i) == [text |-> table[i].sentence, path |-> PathOf(i), score |-> base[i]]

\* the first row with similarity 100
FirstExact == CHOOSE i \in Rows : base[i] = HUNDRED /\ \A j \in 1..(i - 1) : base[j] # HUNDRED

\* C1: extract_one_sqlite returns None exactly when the table has no rows; for
\* a non-empty table it returns one (text, path, score) of a row of the table,
\* however low the score.
C1_NoMatchOnlyWhenEmpty ==
    pc = "returned" =>
        /\ (ret = None) <=> (Len(table) = 0)
        /\ ret # None => \E i \in Rows : Val(ret) = RowResult(i)

\* C1: a full table whose rows all score 0 has been scanned and a row returned.
C1_Witness ==
    /\ pc = "returned"
    /\ Len(table) = MaxRows
    /\ \A i \in Rows : base[i] = 0
    /\ ret # None
    /\ Val(ret).score = 0

C4_ExactMatchIdentity ==
    pc = "returned" =>
        \A i \in Rows :
            input_text = table[i].sentence =>
                ret = Some([text |-> table[i].sentence, path |-> PathOf(i), score |-> HUNDRED])

\* C5, as claimed: the returned match resolves to an intent the filter accepts,
\* and a filter that excludes every intent of the table gives no match.
C5_FilterCorrectness ==
    /\ pc = "done" => recognitions[1].intent \in intent_filter
    /\ (pc = "returned" /\ \A i \in Rows : intentOf[PathOf(i)] \notin intent_filter)
           => ret = None

\* C6, as claimed: recognize never raises; without a match it returns an empty
\* list and the caller goes on with its next input.
C6_NoMatchIsAValue == pc # "raised"

\* C7, as claimed: the keys of the table are unchanged by the normalization of
\* the query, and a query whose normalized form is that of a table sentence
\* scores 100 against it and is reported with confidence 1.
C7_SameNormalization ==
    pc = "done" =>
        \A i \in Rows :
            /\ default_process(table[i].sentence) = table[i].sentence
            /\ default_process(input_text) = default_process(table[i].sentence)
                   => /\ base[i] = HUNDRED
                      /\ recognitions[1].confidence.num = recognitions[1].confidence.den

\* C11: a call of extract_one_sqlite returns what every earlier call with the
\* same input text returned from the same table: the same text, path and
\* score, or no match both times.  Rows of equal score are told apart by their
\* place in the scan alone.
C11_Determinism ==
    pc = "returned" => \A s \in seen : s[1] = input_text => s[2] = ret

\* a second call with the text of an earlier one has returned the earlier
\* result, chosen among two rows of the same, best score
C11_Witness ==
    /\ pc = "returned"
    /\ ret # None
    /\ <<input_text, ret>> \in seen
    /\ \E i, j \in Rows : /\ i < j
                          /\ base[i] = base[j]
                          /\ base[i] = Val(ret).score
                          /\ Val(ret).path = PathOf(i)

\* C14, as claimed: whenever extract_one_sqlite is not running, every connection
\* it opened has been closed, whichever return it took.
C14_ConnectionClosedOnReturn ==
    pc \in {"idle", "returned", "done", "raised"} => conns = 0

----------------------------------------------------------------------------
(* Intent graphs *)

Nodes == {0, 1, 2, 3}

\* edges a graph of the family may have: two branches from 0 to 3, a cycle
\* between the inner nodes and an edge from 0 straight to 3
EdgeCands == { <<0, 1>>, <<0, 2>>, <<1, 2>>, <<2, 1>>, <<1, 3>>, <<2, 3>>, <<0, 3>> }

\* "__label__"
LabelPrefix == <<"_", "_", "l", "a", "b", "e", "l", "_", "_">>
PrefixLen == 9      \* olabel[9:]

\* olabel values of the edges that leave node 0: an intent label, a label
\* without the prefix, or no olabel at all
LabelVals == { Some(LabelPrefix \o <<"A">>), Some(LabelPrefix \o <<"B">>),
               Some(<<"x">>), None }

\* word attributes of the inner nodes 1 and 2: absent, empty or a word (the
\* start node carries no word and the end node an empty one)
WordVals == [ {1} -> { Some(<<>>), Some(<<"a">>) } ] \X
            [ {2} -> { None, Some(<<"a">>), Some(<<"b">>) } ]

\* the nodes tagged as start and as final: one of each, one missing, or two
TagVals == { [start |-> {0}, final |-> {3}],
             [start |-> {}, final |-> {3}],
             [start |-> {0}, final |-> {}],
             [start |-> {0, 1}, final |-> {3}],
             [start |-> {0}, final |-> {2, 3}] }

\* the graphs generate_examples is run on
Graphs ==
    { [edges |-> E,
       olabel |-> [e \in E |-> IF e[1] = 0 THEN lab[e[2]] ELSE None],
       word |-> [n \in Nodes |-> IF n = 1 THEN w[1][1]
                                  ELSE IF n = 2 THEN w[2][2]
                                  ELSE IF n = 3 THEN Some(<<>>) ELSE None],
       start |-> tg.start,
       final |-> tg.final] :
      E \in { X \in SUBSET EdgeCands : Cardinality(X) <= MaxEdges },
      lab \in [{1, 2, 3} -> LabelVals],
      w \in WordVals,
      tg \in TagVals }

----------------------------------------------------------------------------
(* generate_examples and train's loop over it *)

\* rhasspynlu.jsgf_graph.get_start_end_nodes: a node tagged start and a node
\* tagged final, None where no node carries the tag; of several tagged nodes
\* one is returned
StartChoices(G) == IF G.start = {} THEN {None} ELSE { Some(n) : n \in G.start }
EndChoices(G) == IF G.final = {} THEN {None} ELSE { Some(n) : n \in G.final }

RECURSIVE SortedSeq(_)
SortedSeq(S) ==
    IF S = {} THEN <<>>
    ELSE LET m == CHOOSE x \in S : \A y \in S : x <= y
         IN <<m>> \o SortedSeq(S \ {m})

Range(f) == { f[i] : i \in DOMAIN f }

\* the successors of the last node of path p that p has not visited, in
\* adjacency order
Children(G, p) ==
    SortedSeq({ v \in Nodes : <<p[Len(p)], v>> \in G.edges /\ v \notin Range(p) })

RECURSIVE PathsVia(_, _, _, _)
RECURSIVE PathsFrom(_, _, _)

\* depth-first search below the visited path p: the simple paths to t that
\* extend p, in the order the search finds them
PathsFrom(G, p, t) == PathsVia(G, p, t, Children(G, p))

PathsVia(G, p, t, cs) ==
    IF cs = <<>> THEN <<>>
    ELSE (IF Head(cs) = t
          THEN << p \o <<t>> >>
          ELSE PathsFrom(G, p \o <<Head(cs)>>, t))
         \o PathsVia(G, p, t, Tail(cs))

\* nx.all_simple_paths(intent_graph, start_node, end_node)
all_simple_paths(G, s, t) == IF s = t THEN <<>> ELSE PathsFrom(G, <<s>>, t)

\* a check of the path length that lets the two-node path through
PathLongEnough_OffByOne(path) == Len(path) >= 2

\* "assert len(path) > 2"
PathLongEnough(path) == Len(path) > 2

\* a label check that only asks for an olabel
HasIntentLabel_AnyLabel(o) == o # None

\* intent_graph.edges[...]["olabel"] is there (else KeyError) and
\* "assert olabel.startswith("__label__")"
HasIntentLabel(o) ==
    /\ o # None
    /\ Len(Val(o)) >= Len(LabelPrefix)
    /\ SubSeq(Val(o), 1, Len(LabelPrefix)) = LabelPrefix

\* "intent_name = olabel[9:]"
IntentName(o) == SubSeq(Val(o), PrefixLen + 1, Len(Val(o)))

\* a test that skips absent words only
Truthy_NotNone(w) == w # None

\* "if word:" for word = n_data[node].get("word")
Truthy(w) == w # None /\ Val(w) # <<>>

RECURSIVE SentenceOf(_, _)
\* the words of the nodes of a path, in path order, absent and empty ones
\* skipped
SentenceOf(G, path) ==
    IF path = <<>> THEN <<>>
    ELSE (IF Truthy(G.word[Head(path)]) THEN <<Val(G.word[Head(path)])>> ELSE <<>>)
         \o SentenceOf(G, Tail(path))

RECURSIVE JoinWords(_)
\* " ".join(words)
JoinWords(ws) ==
    IF ws = <<>> THEN <<>>
    ELSE IF Len(ws) = 1 THEN ws[1]
    ELSE ws[1] \o <<" ">> \o JoinWords(Tail(ws))

\* the first step of the generator, taken when train's loop asks for the
\* first Example: start and end node, and the assert on them
GenStart ==
    /\ gpc = "start"
    /\ \E sn \in StartChoices(graph), en \in EndChoices(graph) :
         /\ start_node' = sn
         /\ end_node' = en
         /\ IF sn # None /\ en # None
            THEN /\ paths' = all_simple_paths(graph, Val(sn), Val(en))
                 /\ gpc' = "loop"
            ELSE \* AssertionError: Missing start/end node(s)
                 /\ paths' = <<>>
                 /\ gpc' = "failed"
    /\ UNCHANGED <<graph, emitted, examples>>

\* a store that keeps the path an (intent name, text) pair already has
StoreExample_FirstWins(ex, intent_name, word_str, path) ==
    LET key == <<intent_name, word_str>>
    IN [k \in DOMAIN ex \cup {key} |-> IF k \in DOMAIN ex THEN ex[k] ELSE path]

\* "examples[intent_name][word_str] = path" on a defaultdict(dict): the dict of
\* dicts is the map of its (intent name, text) pairs
StoreExample(ex, intent_name, word_str, path) ==
    LET key == <<intent_name, word_str>>
    IN [k \in DOMAIN ex \cup {key} |-> IF k = key THEN path ELSE ex[k]]

\* one pass of "for path in paths" that reaches the yield, and the body of
\* train's loop for the Example: examples[intent_name][word_str] = path
GenYield ==
    /\ gpc = "loop"
    /\ paths # <<>>
    /\ LET path == Head(paths)
           olabel == graph.olabel[<<path[1], path[2]>>]
       IN /\ PathLongEnough(path)
          /\ HasIntentLabel(olabel)
          /\ LET intent_name == IntentName(olabel)
                 sentence == SentenceOf(graph, path)
             IN /\ emitted' = Append(emitted, [intent_name |-> intent_name,
                                               sentence |-> sentence,
                                               path |-> path])
                /\ examples' = StoreExample(examples, intent_name,
                                            JoinWords(sentence), path)
    /\ paths' = Tail(paths)
    /\ UNCHANGED <<graph, gpc, start_node, end_node>>

\* one pass of "for path in paths" that stops at an assert (or at the KeyError
\* of a first edge without olabel): the error leaves generate_examples and
\* train, which returns nothing
GenFail ==
    /\ gpc = "loop"
    /\ paths # <<>>
    /\ LET path == Head(paths)
       IN ~PathLongEnough(path) \/ ~HasIntentLabel(graph.olabel[<<path[1], path[2]>>])
    /\ gpc' = "failed"
    /\ UNCHANGED <<graph, start_node, end_node, paths, emitted, examples>>

\* the generator is exhausted: train returns (intent_graph, examples)
TrainReturn ==
    /\ gpc = "loop"
    /\ paths = <<>>
    /\ gpc' = "trained"
    /\ UNCHANGED <<graph, start_node, end_node, paths, emitted, examples>>

----------------------------------------------------------------------------
(* The specification of training *)

RecIdle ==
    /\ table = <<>>
    /\ intentOf = <<>>
    /\ pc = "off"
    /\ todo = 0
    /\ input_text = <<>>
    /\ intent_filter = {}
    /\ query = <<>>
    /\ idx = 0
    /\ base = <<>>
    /\ score_cutoff = InitialCutoff
    /\ result_score = None
    /\ best_path = None
    /\ best_text = None
    /\ ret = None
    /\ recognitions = <<>>
    /\ conns = 0
    /\ sim = <<>>
    /\ seen = {}

InitGen ==
    /\ graph \in Graphs
    /\ gpc = "start"
    /\ start_node = None
    /\ end_node = None
    /\ paths = <<>>
    /\ emitted = <<>>
    /\ examples = <<>>
    /\ RecIdle

NextGen ==
    \/ GenStart /\ UNCHANGED rvars
    \/ GenYield /\ UNCHANGED rvars
    \/ GenFail /\ UNCHANGED rvars
    \/ TrainReturn /\ UNCHANGED rvars

SpecGen == InitGen /\ [][NextGen]_vars

----------------------------------------------------------------------------
(* Properties of training, checked under SpecGen *)

\* the simple directed paths of G from s to t
SimplePathSet(G, s, t) ==
    { p \in UNION { [1..n -> Nodes] : n \in 2..Cardinality(Nodes) } :
        /\ p[1] = s
        /\ p[Len(p)] = t
        /\ \A i, j \in 1..Len(p) : i # j => p[i] # p[j]
        /\ \A i \in 1..(Len(p) - 1) : <<p[i], p[i + 1]>> \in G.edges }

\* the first edge of p carries an olabel that starts with "__label__"
FirstEdgeLabelled(G, p) ==
    LET o == G.olabel[<<p[1], p[2]>>]
    IN /\ o # None
       /\ Len(o[1]) >= 9
       /\ \A i \in 1..9 : o[1][i] = LabelPrefix[i]

\* a path generate_examples stops at: two nodes only, or no intent label
Malformed(G, p) == Len(p) <= 2 \/ ~FirstEdgeLabelled(G, p)

EmittedPaths == { emitted[i].path : i \in 1..Len(emitted) }

NoPathTwice == \A i, j \in 1..Len(emitted) : i # j => emitted[i].path # emitted[j].path

StartEndFound == start_node # None /\ end_node # None

\* C8, as claimed: on every graph with a start and an end node the generator
\* runs to its end and has emitted exactly one Example per simple path from
\* start to end.
C8_ExactlyOnePerSimplePath ==
    (gpc \in {"trained", "failed"} /\ StartEndFound) =>
        /\ gpc = "trained"
        /\ NoPathTwice
        /\ EmittedPaths = SimplePathSet(graph, Val(start_node), Val(end_node))

\* C8, amended: on a graph with a start and an end node in which every simple
\* start-end path has more than two nodes and a first edge labelled with the
\* prefix, the generator emits exactly one Example per simple path and is
\* exhausted after as many steps as there are paths; on any other such graph
\* it stops with an error at the first malformed path of the enumeration,
\* having emitted one Example for each path before it and nothing else.
C8_OnePerSimplePathUntilMalformed ==
    StartEndFound =>
        LET S == SimplePathSet(graph, Val(start_node), Val(end_node))
        IN /\ NoPathTwice
           /\ EmittedPaths \subseteq S
           /\ gpc = "loop" =>
                 /\ Len(emitted) + Len(paths) = Cardinality(S)
                 /\ EmittedPaths \cup Range(paths) = S
           /\ gpc = "trained" =>
                 /\ EmittedPaths = S
                 /\ \A p \in S : ~Malformed(graph, p)
           /\ gpc = "failed" =>
                 /\ paths # <<>>
                 /\ Malformed(graph, Head(paths))
                 /\ EmittedPaths \cup Range(paths) = S
                 /\ Len(emitted) + Len(paths) = Cardinality(S)
           /\ (\A p \in S : ~Malformed(graph, p)) => gpc # "failed"

\* C8: training has ended on a graph with three simple paths, one Example each.
C8_Witness ==
    /\ gpc = "trained"
    /\ Len(emitted) = 3
    /\ Cardinality(EmittedPaths) = 3

\* C9: every emitted Example has a path from the start node to the end node
\* with more than two nodes, along edges of the graph, without a repeated
\* node, whose first edge carries an intent label with the prefix.
C9_PathValidity ==
    \A i \in 1..Len(emitted) :
        LET p == emitted[i].path
        IN /\ StartEndFound
           /\ p[1] = Val(start_node)
           /\ p[Len(p)] = Val(end_node)
           /\ Len(p) > 2
           /\ \A k \in 1..(Len(p) - 1) : <<p[k], p[k + 1]>> \in graph.edges
           /\ \A k, l \in 1..Len(p) : k # l => p[k] # p[l]
           /\ FirstEdgeLabelled(graph, p)
           /\ LabelPrefix \o emitted[i].intent_name = Val(graph.olabel[<<p[1], p[2]>>])

\* C9: Examples were emitted on a graph that has a cycle between its inner
\* nodes and an edge from the start straight to a second branch.
C9_Witness ==
    /\ gpc = "trained"
    /\ Len(emitted) >= 2
    /\ <<1, 2>> \in graph.edges
    /\ <<2, 1>> \in graph.edges

\* C10, as claimed: when the start or the end node is missing, or there is not
\* exactly one of either, generation fails before any Example is emitted and
\* train returns nothing.
C10_MalformedStartEndIsFatal ==
    (Cardinality(graph.start) # 1 \/ Cardinality(graph.final) # 1) =>
        /\ emitted = <<>>
        /\ gpc \in {"start", "failed"}

\* the (intent name, text) pair train stores the i-th Example under
KeyOf(i) == <<emitted[i].intent_name, JoinWords(emitted[i].sentence)>>

\* the last Example emitted with the pair k
LastWith(k) ==
    CHOOSE i \in DOMAIN emitted :
        KeyOf(i) = k /\ \A j \in DOMAIN emitted : KeyOf(j) = k => j <= i

\* C12: the table holds exactly the (intent name, text) pairs of the Examples
\* consumed so far, each with the path of the last Example emitted with that
\* pair; a pair is overwritten by Examples of its own intent only.
C12_LastWriterWins ==
    /\ DOMAIN examples = { KeyOf(i) : i \in DOMAIN emitted }
    /\ \A k \in DOMAIN examples : examples[k] = emitted[LastWith(k)].path

\* training is over; two Examples of one intent had the same text and the path
\* of the later one is stored, and an Example of the other intent with that
\* text has its own entry
C12_Witness ==
    /\ gpc = "trained"
    /\ \E i, j, l \in DOMAIN emitted :
          /\ i < j
          /\ KeyOf(i) = KeyOf(j)
          /\ emitted[i].path # emitted[j].path
          /\ examples[KeyOf(j)] = emitted[j].path
          /\ KeyOf(l)[2] = KeyOf(j)[2]
          /\ KeyOf(l)[1] # KeyOf(j)[1]
          /\ examples[KeyOf(l)] = emitted[l].path

\* the places of a path whose node has a word that is not empty
Worded(p) ==
    { k \in DOMAIN p : graph.word[p[k]] # None /\ Val(graph.word[p[k]]) # <<>> }

\* the m-th of these places, in path order
NthWorded(p, m) ==
    CHOOSE k \in Worded(p) : Cardinality({ h \in Worded(p) : h <= k }) = m

RECURSIVE Offset(_, _)
\* where the m-th word starts in a text that has one space between its words
Offset(ws, m) == IF m = 1 THEN 0 ELSE Offset(ws, m - 1) + Len(ws[m - 1]) + 1

\* text t is the words ws with exactly one space between neighbours
SingleSpaced(t, ws) ==
    /\ Len(t) = IF ws = <<>> THEN 0 ELSE Offset(ws, Len(ws)) + Len(ws[Len(ws)])
    /\ \A m \in DOMAIN ws :
          /\ SubSeq(t, Offset(ws, m) + 1, Offset(ws, m) + Len(ws[m])) = ws[m]
          /\ m < Len(ws) => t[Offset(ws, m) + Len(ws[m]) + 1] = " "

\* C13: the words of an Example are the word attributes of its path's nodes in
\* path order, absent and empty ones left out; the text it is stored under is
\* these words with single spaces between them; its intent name is the label
\* of the path's first edge without the "__label__" in front.
C13_SentenceRendering ==
    \A i \in DOMAIN emitted :
        LET p == emitted[i].path
            ws == emitted[i].sentence
        IN /\ Len(ws) = Cardinality(Worded(p))
           /\ \A m \in DOMAIN ws : ws[m] = Val(graph.word[p[NthWorded(p, m)]])
           /\ \E k \in DOMAIN examples :
                 /\ k[1] = emitted[i].intent_name
                 /\ SingleSpaced(k[2], ws)
           /\ LabelPrefix \o emitted[i].intent_name
                  = Val(graph.olabel[<<p[1], p[2]>>])

\* training is over and has stored a text of two different words, from a path
\* that also has a node without a word and a node with an empty one
C13_Witness ==
    /\ gpc = "trained"
    /\ \E i \in DOMAIN emitted :
          LET p == emitted[i].path
          IN /\ emitted[i].sentence = <<<<"a">>, <<"b">>>>
             /\ <<emitted[i].intent_name, <<"a", " ", "b">>>> \in DOMAIN examples
             /\ \E k \in DOMAIN p : graph.word[p[k]] = None
             /\ \E k \in DOMAIN p : graph.word[p[k]] = Some(<<>>)

====
